---- MODULE Spec2Model ----
(***************************************************************************)
(* A model of task-tui (src/src/main.rs): the file-backed task store, the  *)
(* task lifecycle, the selection index and the controller's main loop.     *)
(*                                                                         *)
(* One controller process runs main(): Startup, then the loop              *)
(*   draw -> rx.recv() -> dispatch on the event -> draw -> ...             *)
(* The event thread is abstracted to whether it is still alive; the event  *)
(* the controller receives is drawn from the key alphabet.  Relaunch       *)
(* starts the program again on the file the previous run left.             *)
(***************************************************************************)
EXTENDS Integers, Sequences, FiniteSets, TLC

(* ------------------------------ bounds -------------------------------- *)

\* Under Spec, Add is not taken once the new id would exceed MaxId (this
\* caps the list too).
MaxId == 2
\* Under SpecList, where the clock stands still, the cap on the new id.
MaxListId == 3
\* The clock stops advancing at MaxClock.
MaxClock == 1
\* Typing is not taken once the input box holds MaxInput characters.
MaxInput == 1
\* Navigation is not taken when it would move the selection into
\* MaxSel+1 .. UsizeMax-1 (only reachable through wrapped arithmetic).
MaxSel == 3
\* The tasks handed to the store calls have ids 1..MaxStoreId, in lists of
\* at most MaxStoreLen tasks.
MaxStoreId == 2
MaxStoreLen == 2
\* The user presses no key while MaxChan events wait in the channel, or
\* while MaxKeys keys have been read and not all applied.
MaxChan == 2
MaxKeys == 2
\* An interrupted write stops after at most MaxStoreTokens tokens.
MaxStoreTokens == 2 * MaxStoreLen

(* ----------------------------- constants ------------------------------ *)

\* usize::MAX, the value `0usize - 1` wraps to when overflow checks are off.
\* The value of the narrowest pointer width Rust targets (16 bit); the
\* model only relies on it being larger than every list length.
UsizeMax == 65535

\* tick_rate = Duration::from_millis(200), in units of 100 ms.
tick_rate == 2

\* The characters the model types into the input box (KeyCode::Char(c)
\* pushes any c alike; 'd' is an intent key of the normal screen).
EditChars == {"d"}

None == <<>>
Some(x) == <<x>>
Unwrap(o) == o[1]

(* ------------------------------ state --------------------------------- *)

VARIABLES
    db,               \* the backing file: [kind, tasks]
    selected,         \* task_list_state.selected(): None or Some(index)
    input,            \* app.input
    input_mode,       \* app.input_mode: "Normal" | "Editing"
    active_menu_item, \* "Home" | "Tasks"
    pc,               \* position of main(): start, draw, recv, exit_ok, exit_err, panicked
    raw_mode,         \* the terminal's raw-mode flag
    enables,          \* calls of enable_raw_mode() that succeeded in this process
    disables,         \* calls of disable_raw_mode() that succeeded in this process
    now,              \* Utc::now()
    producer,         \* the event thread: "alive" | "dead"
    arm,              \* the arm of the dispatch taken in this iteration ("none" before it)
    overflow_checks,  \* build profile: TRUE panics on `0 - 1`, FALSE wraps
    disk,             \* the backing file as text: [exists, text]
    arg,              \* the argument of the last store call made on disk
    ret,              \* what that call returned: [op, ok, value]
    thread_pc,        \* position of the event thread's loop: poll, send, check, stamp
    last_tick,        \* last_tick.elapsed(), up to tick_rate
    since_tick,       \* time since the event thread last sent a Tick, up to tick_rate
    channel,          \* the events sent on tx and not yet received on rx
    held_key,         \* the key the event thread has read and not yet sent
    read_keys,        \* the keys read from the terminal, in order, not yet all applied
    applied_keys      \* those of read_keys whose dispatch arm has run, in order

\* The program's own state.
prog == <<db, selected, input, input_mode, active_menu_item, pc, raw_mode,
          enables, disables, now, producer, arm, overflow_checks>>

\* The state of the store calls made one at a time on a file's text.
store == <<disk, arg, ret>>

\* The event thread, the channel and the record of the keys.
events == <<thread_pc, last_tick, since_tick, channel, held_key, read_keys,
            applied_keys>>

\* What the program specifications leave alone.
aux == <<store, events>>

vars == <<prog, aux>>

(* --------------------------- task lifecycle --------------------------- *)

\* TaskState::progress with the Pending arm skipping a state.
TaskState_progress_skip(s) ==
    CASE s = "Pending"    -> "InProgress"
      [] s = "Started"    -> "InProgress"
      [] s = "InProgress" -> "Done"
      [] s = "Done"       -> "Done"

\* TaskState::progress
TaskState_progress(s) ==
    CASE s = "Pending"    -> "Started"
      [] s = "Started"    -> "InProgress"
      [] s = "InProgress" -> "Done"
      [] s = "Done"       -> "Done"

\* Task::create_task handing out a task that is already started.
create_task_started(number, task_name, t) ==
    [id |-> number, name |-> task_name, state |-> "Started",
     created_at |-> t, started_at |-> Some(t), finished_at |-> None]

\* Task::create_task
create_task(number, task_name, t) ==
    [id |-> number, name |-> task_name, state |-> "Pending",
     created_at |-> t, started_at |-> None, finished_at |-> None]

\* Task::progress stamping started_at one state late.
Task_progress_late(task, t) ==
    LET s == TaskState_progress(task.state)
    IN  [task EXCEPT !.state = s,
                     !.started_at  = IF s = "InProgress" THEN Some(t) ELSE @,
                     !.finished_at = IF s = "Done" THEN Some(t) ELSE @]

\* Task::progress: the stamp is written whenever the new state is Started
\* or Done, whatever the field held.
Task_progress(task, t) ==
    LET s == TaskState_progress(task.state)
    IN  [task EXCEPT !.state = s,
                     !.started_at  = IF s = "Started" THEN Some(t) ELSE @,
                     !.finished_at = IF s = "Done" THEN Some(t) ELSE @]

(* ------------------------------ store --------------------------------- *)

Absent == [kind |-> "absent", tasks |-> <<>>]
EmptyFile == [kind |-> "empty", tasks |-> <<>>]
NullFile == [kind |-> "null", tasks |-> <<>>]
Doc(tasks) == [kind |-> "doc", tasks |-> tasks]

\* ensure_db_file_exists: a missing file is created with length zero.
ensure_db_file_exists(f) == IF f.kind = "absent" THEN EmptyFile ELSE f

\* collect_tasks: "null" and a zero-length file (serde's EOF error) decode
\* to the empty vector, a document to its tasks.
collect_tasks(f) ==
    CASE f.kind = "null"  -> <<>>
      [] f.kind = "empty" -> <<>>
      [] f.kind = "doc"   -> f.tasks

\* Outcomes of one read_db() call.
ReadOutcomes == {"ok", "open_err", "read_err"}

\* read_db: the file after the call and what the call returns.
read_db(f, rd) ==
    CASE rd = "open_err" -> [ok |-> FALSE, file |-> f, tasks |-> <<>>]
      [] rd = "read_err" -> [ok |-> FALSE, file |-> ensure_db_file_exists(f), tasks |-> <<>>]
      [] rd = "ok"       -> [ok |-> TRUE, file |-> ensure_db_file_exists(f),
                             tasks |-> collect_tasks(ensure_db_file_exists(f))]

\* Insert task into a list sorted by id, after the tasks whose id is <= its own.
RECURSIVE InsertById(_, _)
InsertById(task, s) ==
    IF s = <<>> THEN <<task>>
    ELSE IF s[Len(s)].id <= task.id THEN Append(s, task)
    ELSE Append(InsertById(task, SubSeq(s, 1, Len(s) - 1)), s[Len(s)])

\* write_db without its sort.
sort_by_id_unsorted(s) == s

\* tasks.sort_by(|a,b| a.id.cmp(&b.id)): a stable sort by ascending id.
RECURSIVE sort_by_id(_)
sort_by_id(s) ==
    IF s = <<>> THEN <<>>
    ELSE InsertById(s[Len(s)], sort_by_id(SubSeq(s, 1, Len(s) - 1)))

\* Outcomes of one write_db() call.
WriteOutcomes == {"ok", "open_err", "write_err"}

\* write_db: open, truncate, sort, serialize.  A failure after set_len(0)
\* leaves the file truncated.
write_db(f, tasks, wr) ==
    CASE wr = "open_err"  -> [ok |-> FALSE, file |-> f, tasks |-> <<>>]
      [] wr = "write_err" -> [ok |-> FALSE, file |-> EmptyFile, tasks |-> <<>>]
      [] wr = "ok"        -> [ok |-> TRUE, file |-> Doc(sort_by_id(tasks)),
                              tasks |-> sort_by_id(tasks)]

(* -------------------------- the file's text ---------------------------- *)

(* The text of the file is a sequence of JSON tokens.  Punctuation and   *)
(* the literal null are one-element tuples <<"[">>, <<",">>, <<"]">>,     *)
(* <<"null">>; a complete object is <<"{}", o>> with o the record of its  *)
(* encoded members; <<"{">> is an object the text ends inside of;         *)
(* <<"junk">> is text that is no JSON.                                    *)
Tok(t) == <<t>>
Obj(o) == <<"{}", o>>

\* TaskState::to_string: the form the table shows.
TaskState_to_string(s) ==
    CASE s = "Pending"    -> "pending"
      [] s = "Started"    -> "started"
      [] s = "InProgress" -> "in progress"
      [] s = "Done"       -> "done"

\* TryFrom<&str> for TaskState with a default arm of Pending.
TaskState_try_from_default(value) ==
    CASE value = "pending"     -> [ok |-> TRUE, state |-> "Pending"]
      [] value = "started"     -> [ok |-> TRUE, state |-> "Started"]
      [] value = "in progress" -> [ok |-> TRUE, state |-> "InProgress"]
      [] value = "done"        -> [ok |-> TRUE, state |-> "Done"]
      [] OTHER                 -> [ok |-> TRUE, state |-> "Pending"]

\* TryFrom<&str> for TaskState; the state field of a failure is not looked at.
TaskState_try_from(value) ==
    CASE value = "pending"     -> [ok |-> TRUE, state |-> "Pending"]
      [] value = "started"     -> [ok |-> TRUE, state |-> "Started"]
      [] value = "in progress" -> [ok |-> TRUE, state |-> "InProgress"]
      [] value = "done"        -> [ok |-> TRUE, state |-> "Done"]
      [] OTHER                 -> [ok |-> FALSE, state |-> "Pending"]

\* #[derive(Serialize)] on TaskState: the variant's name as a JSON string.
serialize_state(s) ==
    CASE s = "Pending"    -> "\"Pending\""
      [] s = "Started"    -> "\"Started\""
      [] s = "InProgress" -> "\"InProgress\""
      [] s = "Done"       -> "\"Done\""

\* #[derive(Deserialize)] on TaskState: one of the four variant names, or
\* an "unknown variant" error.
deserialize_state(v) ==
    CASE v = "\"Pending\""    -> [ok |-> TRUE, state |-> "Pending"]
      [] v = "\"Started\""    -> [ok |-> TRUE, state |-> "Started"]
      [] v = "\"InProgress\"" -> [ok |-> TRUE, state |-> "InProgress"]
      [] v = "\"Done\""       -> [ok |-> TRUE, state |-> "Done"]
      [] OTHER                -> [ok |-> FALSE, state |-> "Pending"]

\* String as a JSON string: the characters between quotes.
serialize_name(n) == <<"\"">> \o n \o <<"\"">>
deserialize_name(v) == SubSeq(v, 2, Len(v) - 1)

\* DateTime<Utc> as its RFC 3339 string, Option<DateTime<Utc>> as that or null.
serialize_time(t) == <<"rfc3339", t>>
deserialize_time(v) == v[2]
serialize_option(o) == IF o = None THEN Tok("null") ELSE serialize_time(Unwrap(o))
deserialize_option_none(v) == None
deserialize_option(v) == IF v = Tok("null") THEN None ELSE Some(deserialize_time(v))

\* #[derive(Serialize)] on Task
serialize_task(task) ==
    [id |-> task.id,
     name |-> serialize_name(task.name),
     state |-> serialize_state(task.state),
     created_at |-> serialize_time(task.created_at),
     started_at |-> serialize_option(task.started_at),
     finished_at |-> serialize_option(task.finished_at)]

\* #[derive(Deserialize)] on Task
deserialize_task(o) ==
    LET st == deserialize_state(o.state)
    IN  [ok |-> st.ok,
         task |-> [id |-> o.id,
                   name |-> deserialize_name(o.name),
                   state |-> st.state,
                   created_at |-> deserialize_time(o.created_at),
                   started_at |-> deserialize_option(o.started_at),
                   finished_at |-> deserialize_option(o.finished_at)]]

\* The elements of a JSON array, separated by commas.
RECURSIVE write_elements(_)
write_elements(tasks) ==
    IF tasks = <<>> THEN <<>>
    ELSE IF Len(tasks) = 1 THEN <<Obj(serialize_task(tasks[1]))>>
    ELSE <<Obj(serialize_task(tasks[1])), Tok(",")>> \o write_elements(Tail(tasks))

\* serde_json::to_writer(db_file, &tasks)
to_writer(tasks) == <<Tok("[")>> \o write_elements(tasks) \o <<Tok("]")>>

\* A serde_json error; eof is what Error::is_eof() answers.
ParseError(eof) == [ok |-> FALSE, eof |-> eof, tasks |-> <<>>]

\* The parser inside a JSON array at token i with the elements acc read:
\* want is "first" after "[", "element" after "," and "separator" after
\* an element.  The first error met is the one returned; text after the
\* closing bracket is an error.
RECURSIVE parse_elements(_, _, _, _)
parse_elements(text, i, acc, want) ==
    IF i > Len(text) THEN ParseError(TRUE)
    ELSE
      LET h == text[i][1]
          atEnd == IF i = Len(text)
                   THEN [ok |-> TRUE, eof |-> FALSE, tasks |-> acc]
                   ELSE ParseError(FALSE)
      IN  IF want = "separator"
          THEN IF h = "," THEN parse_elements(text, i + 1, acc, "element")
               ELSE IF h = "]" THEN atEnd
               ELSE ParseError(FALSE)
          ELSE IF h = "]" /\ want = "first" THEN atEnd
          ELSE IF h = "{}"
               THEN LET d == deserialize_task(text[i][2])
                    IN  IF d.ok
                        THEN parse_elements(text, i + 1, Append(acc, d.task), "separator")
                        ELSE ParseError(FALSE)
          ELSE IF h = "{" THEN ParseError(i = Len(text))
          ELSE ParseError(FALSE)

\* serde_json::from_str::<Vec<Task>>(&s)
from_str(text) ==
    IF text = <<>> THEN ParseError(TRUE)
    ELSE IF text[1][1] = "[" THEN parse_elements(text, 2, <<>>, "first")
    ELSE ParseError(FALSE)

\* collect_tasks on the string read, without the test for "null".
collect_tasks_str_no_null(s) ==
    LET p == from_str(s)
    IN  IF p.ok THEN [ok |-> TRUE, tasks |-> p.tasks]
        ELSE IF p.eof THEN [ok |-> TRUE, tasks |-> <<>>]
        ELSE [ok |-> FALSE, tasks |-> <<>>]

\* collect_tasks on the string s it has read: "null" gives the empty
\* vector, a parse error that is_eof() gives the empty vector, any other
\* parse error is returned.
collect_tasks_str(s) ==
    IF s = <<Tok("null")>> THEN [ok |-> TRUE, tasks |-> <<>>]
    ELSE LET p == from_str(s)
         IN  IF p.ok THEN [ok |-> TRUE, tasks |-> p.tasks]
             ELSE IF p.eof THEN [ok |-> TRUE, tasks |-> <<>>]
             ELSE [ok |-> FALSE, tasks |-> <<>>]

\* The file as it lies on the disk: whether it exists, and its text.
OnDisk(f) ==
    CASE f.kind = "absent" -> [exists |-> FALSE, text |-> <<>>]
      [] f.kind = "empty"  -> [exists |-> TRUE, text |-> <<>>]
      [] f.kind = "null"   -> [exists |-> TRUE, text |-> <<Tok("null")>>]
      [] f.kind = "doc"    -> [exists |-> TRUE, text |-> to_writer(f.tasks)]

\* Vec::remove called with the 1-based position.
RemoveAt_off(s, i) == SubSeq(s, 1, i - 1) \o SubSeq(s, i + 1, Len(s))

\* Vec::remove(index)
RemoveAt(s, i) == SubSeq(s, 1, i) \o SubSeq(s, i + 2, Len(s))

\* usize subtraction when overflow checks are off.
wrapping_sub(a, b) == IF a >= b THEN a - b ELSE UsizeMax - (b - a) + 1

\* The selection values the model explores.
InSelCap(i) == i <= MaxSel \/ i = UsizeMax

(* --------------------------- controller ------------------------------- *)

\* main() returns or unwinds: the process's memory is gone, the file and
\* the terminal's mode stay.
Leave(how) ==
    /\ pc' = how
    /\ selected' = None
    /\ input' = <<>>
    /\ input_mode' = "Normal"
    /\ active_menu_item' = "Home"
    /\ producer' = "dead"

\* The program before main() runs, on a file of any of the three kinds a
\* first launch can meet.
InitProgram ==
    /\ db \in {Absent, EmptyFile, NullFile}
    /\ selected = None
    /\ input = <<>>
    /\ input_mode = "Normal"
    /\ active_menu_item = "Home"
    /\ pc = "start"
    /\ raw_mode = FALSE
    /\ enables = 0
    /\ disables = 0
    /\ now = 0
    /\ producer = "dead"
    /\ arm = "none"
    /\ overflow_checks \in BOOLEAN

\* No store call has been made on disk.
NoCall == [op |-> "none", ok |-> TRUE, value |-> <<>>]

\* The store calls at rest.
InitNoStore ==
    /\ disk = OnDisk(Absent)
    /\ arg = <<>>
    /\ ret = NoCall

\* The event thread at the top of its loop, nothing read or sent.
InitNoEvents ==
    /\ thread_pc = "poll"
    /\ last_tick = 0
    /\ since_tick = 0
    /\ channel = <<>>
    /\ held_key = "none"
    /\ read_keys = <<>>
    /\ applied_keys = <<>>

Init ==
    /\ InitProgram
    /\ InitNoStore
    /\ InitNoEvents

\* main, up to the loop: enable_raw_mode().expect, spawn the event thread,
\* Terminal::new(..)?, terminal.clear()?, select(Some(0)).
Startup(out) ==
    /\ pc = "start"
    /\ CASE out = "raw_err" ->
              /\ Leave("panicked")
              /\ UNCHANGED <<raw_mode, enables>>
         [] out = "term_err" ->
              /\ raw_mode' = TRUE
              /\ enables' = enables + 1
              /\ Leave("exit_err")
         [] out = "ok" ->
              /\ raw_mode' = TRUE
              /\ enables' = enables + 1
              /\ producer' = "alive"
              /\ selected' = Some(0)
              /\ pc' = "draw"
              /\ UNCHANGED <<input, input_mode, active_menu_item>>
    /\ UNCHANGED <<db, disables, now, arm, overflow_checks, aux>>

\* terminal.draw(..)?: the task screen reads the store (render_tasks).  The
\* previous iteration's event has gone out of scope.
Draw(rd, termOk) ==
    /\ pc = "draw"
    /\ arm' = "none"
    /\ LET r == read_db(db, rd)
       IN  IF active_menu_item = "Tasks"
           THEN /\ db' = r.file
                /\ IF ~r.ok THEN Leave("panicked")
                   ELSE IF ~termOk THEN Leave("exit_err")
                   ELSE /\ pc' = "recv"
                        /\ UNCHANGED <<selected, input, input_mode, active_menu_item, producer>>
           ELSE /\ db' = db
                /\ IF ~termOk THEN Leave("exit_err")
                   ELSE /\ pc' = "recv"
                        /\ UNCHANGED <<selected, input, input_mode, active_menu_item, producer>>
    /\ UNCHANGED <<raw_mode, enables, disables, now, overflow_checks, aux>>

\* The controller is blocked in rx.recv() and the event thread can send.
Receiving == pc = "recv" /\ producer = "alive"

\* The dispatch ends and the loop goes on; only the listed parts changed.
Handled(ev) ==
    /\ arm' = ev
    /\ pc' = "draw"
    /\ UNCHANGED <<raw_mode, enables, disables, now, producer, overflow_checks, aux>>

\* The dispatch ends main() with an error (`?`) or a panic.
Aborted(ev, how) ==
    /\ arm' = ev
    /\ Leave(how)
    /\ UNCHANGED <<raw_mode, enables, disables, now, overflow_checks, aux>>

\* Event::Tick => {}
RecvTick ==
    /\ Receiving
    /\ Handled("Tick")
    /\ UNCHANGED <<db, selected, input, input_mode, active_menu_item>>

\* rx.recv()? on a channel whose sender is gone: main returns the error.
RecvClosed ==
    /\ pc = "recv"
    /\ producer = "dead"
    /\ Aborted("closed", "exit_err")
    /\ UNCHANGED db

\* The event thread panics: poll(..).expect, read().expect or send(..).expect.
\* The controller can only notice in rx.recv(), so the step is taken there.
EventThreadPanic ==
    /\ pc = "recv"
    /\ producer = "alive"
    /\ producer' = "dead"
    /\ UNCHANGED <<db, selected, input, input_mode, active_menu_item, pc, raw_mode,
                   enables, disables, now, arm, overflow_checks, aux>>

\* KeyCode::Char('e'): disable_raw_mode()?; show_cursor()?; clear()?; break.
KeyQuit(out) ==
    /\ Receiving
    /\ input_mode = "Normal"
    /\ arm' = "e"
    /\ CASE out = "disable_err" ->
              /\ Leave("exit_err")
              /\ UNCHANGED <<raw_mode, disables>>
         [] out = "term_err" ->
              /\ raw_mode' = FALSE
              /\ disables' = disables + 1
              /\ Leave("exit_err")
         [] out = "ok" ->
              /\ raw_mode' = FALSE
              /\ disables' = disables + 1
              /\ Leave("exit_ok")
    /\ UNCHANGED <<db, enables, now, overflow_checks, aux>>

\* KeyCode::Char('h') and KeyCode::Char('t')
KeySwitch(key) ==
    /\ Receiving
    /\ input_mode = "Normal"
    /\ key \in {"h", "t"}
    /\ active_menu_item' = IF key = "h" THEN "Home" ELSE "Tasks"
    /\ Handled(key)
    /\ UNCHANGED <<db, selected, input, input_mode>>

\* KeyCode::Char('a'): begin add-task entry.
KeyAdd ==
    /\ Receiving
    /\ input_mode = "Normal"
    /\ input_mode' = "Editing"
    /\ Handled("a")
    /\ UNCHANGED <<db, selected, input, active_menu_item>>

(* Each store handler is a function of the file, the selection and the    *)
(* outcomes of its store calls, giving the file and selection afterwards  *)
(* and how the handler ended: "ok", "err" (`?` returned an error) or      *)
(* "panic".                                                               *)

\* progress_task_at_index advancing the first task whatever the selection.
progress_task_at_index_first(f, sel, t, rd, wr) ==
    IF sel = None THEN [file |-> f, selected |-> sel, result |-> "ok"]
    ELSE
      LET r == read_db(f, rd)
          i == Unwrap(sel)
      IN  IF ~r.ok THEN [file |-> r.file, selected |-> sel, result |-> "err"]
          ELSE IF Len(r.tasks) > 0
          THEN IF i >= Len(r.tasks)
               THEN [file |-> r.file, selected |-> sel, result |-> "panic"]
               ELSE LET w == write_db(r.file,
                                      [r.tasks EXCEPT ![1] = Task_progress(@, t)], wr)
                    IN  [file |-> w.file, selected |-> sel,
                         result |-> IF w.ok THEN "ok" ELSE "err"]
          ELSE [file |-> r.file, selected |-> sel, result |-> "ok"]

\* progress_task_at_index
progress_task_at_index(f, sel, t, rd, wr) ==
    IF sel = None THEN [file |-> f, selected |-> sel, result |-> "ok"]
    ELSE
      LET r == read_db(f, rd)
          i == Unwrap(sel)
      IN  IF ~r.ok THEN [file |-> r.file, selected |-> sel, result |-> "err"]
          ELSE IF Len(r.tasks) > 0
          THEN IF i >= Len(r.tasks)
               THEN [file |-> r.file, selected |-> sel, result |-> "panic"]
               ELSE LET w == write_db(r.file,
                                      [r.tasks EXCEPT ![i + 1] = Task_progress(@, t)], wr)
                    IN  [file |-> w.file, selected |-> sel,
                         result |-> IF w.ok THEN "ok" ELSE "err"]
          ELSE [file |-> r.file, selected |-> sel, result |-> "ok"]

\* remove_task_at_index
remove_task_at_index(f, sel, rd, wr) ==
    IF sel = None THEN [file |-> f, selected |-> sel, result |-> "ok"]
    ELSE
      LET r == read_db(f, rd)
          i == Unwrap(sel)
      IN  IF ~r.ok THEN [file |-> r.file, selected |-> sel, result |-> "err"]
          ELSE IF Len(r.tasks) > 0
          THEN IF i >= Len(r.tasks)
               THEN [file |-> r.file, selected |-> sel, result |-> "panic"]
               ELSE LET w == write_db(r.file, RemoveAt(r.tasks, i), wr)
                    IN  IF ~w.ok
                        THEN [file |-> w.file, selected |-> sel, result |-> "err"]
                        ELSE [file |-> w.file,
                              selected |-> IF i # 0 THEN Some(i - 1) ELSE sel,
                              result |-> "ok"]
          ELSE [file |-> r.file, selected |-> sel, result |-> "ok"]

\* The new id taken from the length of the list.
new_task_id_len(parsed) == Len(parsed) + 1

\* The id add_task_to_db gives the new task.
new_task_id(parsed) ==
    IF Len(parsed) # 0 THEN parsed[Len(parsed)].id + 1 ELSE 1

\* add_task_to_db
add_task_to_db(f, name, t, rd, wr) ==
    LET r == read_db(f, rd)
    IN  IF ~r.ok THEN [file |-> r.file, result |-> "err"]
        ELSE LET w == write_db(r.file,
                               Append(r.tasks, create_task(new_task_id(r.tasks), name, t)),
                               wr)
             IN  [file |-> w.file, result |-> IF w.ok THEN "ok" ELSE "err"]

\* `amount_task - 1`: panics under overflow checks, wraps without.
len_minus_one(amount_task, oc) ==
    IF amount_task = 0 /\ oc THEN [panic |-> TRUE, value |-> 0]
    ELSE [panic |-> FALSE, value |-> wrapping_sub(amount_task, 1)]

\* KeyCode::Down stopping at the last task.
navigate_down_clamp(f, sel, rd, oc) ==
    IF sel = None THEN [file |-> f, selected |-> sel, result |-> "ok"]
    ELSE
      LET r == read_db(f, rd)
          i == Unwrap(sel)
          last == len_minus_one(Len(r.tasks), oc)
      IN  IF ~r.ok \/ last.panic
          THEN [file |-> r.file, selected |-> sel, result |-> "panic"]
          ELSE [file |-> r.file,
                selected |-> IF i >= last.value THEN sel ELSE Some(i + 1),
                result |-> "ok"]

\* KeyCode::Down
navigate_down(f, sel, rd, oc) ==
    IF sel = None THEN [file |-> f, selected |-> sel, result |-> "ok"]
    ELSE
      LET r == read_db(f, rd)
          i == Unwrap(sel)
          last == len_minus_one(Len(r.tasks), oc)
      IN  IF ~r.ok \/ last.panic
          THEN [file |-> r.file, selected |-> sel, result |-> "panic"]
          ELSE [file |-> r.file,
                selected |-> IF i >= last.value THEN Some(0) ELSE Some(i + 1),
                result |-> "ok"]

\* KeyCode::Up
navigate_up(f, sel, rd, oc) ==
    IF sel = None THEN [file |-> f, selected |-> sel, result |-> "ok"]
    ELSE
      LET r == read_db(f, rd)
          i == Unwrap(sel)
          last == len_minus_one(Len(r.tasks), oc)
      IN  IF ~r.ok THEN [file |-> r.file, selected |-> sel, result |-> "panic"]
          ELSE IF i > 0 THEN [file |-> r.file, selected |-> Some(i - 1), result |-> "ok"]
          ELSE IF last.panic THEN [file |-> r.file, selected |-> sel, result |-> "panic"]
          ELSE [file |-> r.file, selected |-> Some(last.value), result |-> "ok"]

\* The dispatch arm called a handler that ended as res says.
Finish(ev, res) ==
    /\ db' = res.file
    /\ CASE res.result = "ok"    -> Handled(ev) /\ selected' = res.selected
         [] res.result = "err"   -> Aborted(ev, "exit_err")
         [] res.result = "panic" -> Aborted(ev, "panicked")

\* KeyCode::Char('p') => progress_task_at_index(&mut task_list_state)?
KeyProgress(rd, wr) ==
    /\ Receiving
    /\ input_mode = "Normal"
    /\ LET res == progress_task_at_index(db, selected, now, rd, wr)
       IN  /\ Finish("p", res)
           /\ res.result = "ok" => UNCHANGED <<input, input_mode, active_menu_item>>

\* KeyCode::Char('d') => remove_task_at_index(&mut task_list_state)?
KeyDelete(rd, wr) ==
    /\ Receiving
    /\ input_mode = "Normal"
    /\ LET res == remove_task_at_index(db, selected, rd, wr)
       IN  /\ Finish("d", res)
           /\ res.result = "ok" => UNCHANGED <<input, input_mode, active_menu_item>>

\* KeyCode::Down
KeyDown(rd) ==
    /\ Receiving
    /\ input_mode = "Normal"
    /\ LET res == navigate_down(db, selected, rd, overflow_checks)
       IN  /\ res.result = "ok" => InSelCap(Unwrap(res.selected))
           /\ Finish("Down", res)
           /\ res.result = "ok" => UNCHANGED <<input, input_mode, active_menu_item>>

\* KeyCode::Up
KeyUp(rd) ==
    /\ Receiving
    /\ input_mode = "Normal"
    /\ LET res == navigate_up(db, selected, rd, overflow_checks)
       IN  /\ res.result = "ok" => InSelCap(Unwrap(res.selected))
           /\ Finish("Up", res)
           /\ res.result = "ok" => UNCHANGED <<input, input_mode, active_menu_item>>

\* Editing, KeyCode::Enter: add_task_to_db(app.input.drain(..).collect())?
KeyEnter(rd, wr) ==
    /\ Receiving
    /\ input_mode = "Editing"
    /\ LET res == add_task_to_db(db, input, now, rd, wr)
       IN  /\ db' = res.file
           /\ IF res.result = "ok"
              THEN /\ Handled("Enter")
                   /\ input' = <<>>
                   /\ input_mode' = "Normal"
                   /\ UNCHANGED <<selected, active_menu_item>>
              ELSE Aborted("Enter", "exit_err")

\* Editing, KeyCode::Char(c) => app.input.push(c)
KeyChar(c) ==
    /\ Receiving
    /\ input_mode = "Editing"
    /\ Len(input) < MaxInput
    /\ input' = Append(input, c)
    /\ Handled("Char")
    /\ UNCHANGED <<db, selected, input_mode, active_menu_item>>

\* Editing, KeyCode::Backspace => app.input.pop()
KeyBackspace ==
    /\ Receiving
    /\ input_mode = "Editing"
    /\ input' = IF input = <<>> THEN <<>> ELSE SubSeq(input, 1, Len(input) - 1)
    /\ Handled("Backspace")
    /\ UNCHANGED <<db, selected, input_mode, active_menu_item>>

\* Editing, KeyCode::Esc committing what was typed.
KeyEsc_commits ==
    /\ Receiving
    /\ input_mode = "Editing"
    /\ db' = add_task_to_db(db, input, now, "ok", "ok").file
    /\ input_mode' = "Normal"
    /\ Handled("Esc")
    /\ UNCHANGED <<selected, input, active_menu_item>>

\* Editing, KeyCode::Esc
KeyEsc ==
    /\ Receiving
    /\ input_mode = "Editing"
    /\ input_mode' = "Normal"
    /\ Handled("Esc")
    /\ UNCHANGED <<db, selected, input, active_menu_item>>

\* The keys the model sends that fall to `_ => {}` in each mode.
IgnoredKeys(mode) == IF mode = "Normal" THEN {"Esc"} ELSE {"Down"}

\* `_ => {}`
KeyIgnored(key) ==
    /\ Receiving
    /\ key \in IgnoredKeys(input_mode)
    /\ Handled("ignored")
    /\ UNCHANGED <<db, selected, input, input_mode, active_menu_item>>

\* Utc::now() moves on.
TimePasses ==
    /\ now < MaxClock
    /\ now' = now + 1
    /\ UNCHANGED <<db, selected, input, input_mode, active_menu_item, pc, raw_mode,
                   enables, disables, producer, arm, overflow_checks, aux>>

\* The program is started again on the file the last run left, in a fresh
\* terminal session.
Relaunch ==
    /\ pc \in {"exit_ok", "exit_err", "panicked"}
    /\ pc' = "start"
    /\ raw_mode' = FALSE
    /\ enables' = 0
    /\ disables' = 0
    /\ arm' = "none"
    /\ UNCHANGED <<db, selected, input, input_mode, active_menu_item, now, producer,
                   overflow_checks, aux>>

\* The cap on Add: the id the next Add would assign is at most maxId.
CanAdd(maxId) == new_task_id(collect_tasks(ensure_db_file_exists(db))) <= maxId

\* Every step but Add and the clock.
Step ==
    \/ \E out \in {"ok", "raw_err", "term_err"} : Startup(out)
    \/ \E rd \in ReadOutcomes, termOk \in BOOLEAN : Draw(rd, termOk)
    \/ RecvTick
    \/ RecvClosed
    \/ EventThreadPanic
    \/ \E out \in {"ok", "disable_err", "term_err"} : KeyQuit(out)
    \/ \E key \in {"h", "t"} : KeySwitch(key)
    \/ KeyAdd
    \/ \E rd \in ReadOutcomes, wr \in WriteOutcomes : KeyProgress(rd, wr)
    \/ \E rd \in ReadOutcomes, wr \in WriteOutcomes : KeyDelete(rd, wr)
    \/ \E rd \in ReadOutcomes : KeyDown(rd)
    \/ \E rd \in ReadOutcomes : KeyUp(rd)
    \/ \E c \in EditChars : KeyChar(c)
    \/ KeyBackspace
    \/ KeyEsc
    \/ \E key \in {"Esc", "Down"} : KeyIgnored(key)
    \/ Relaunch

Next ==
    \/ Step
    \/ \E rd \in ReadOutcomes, wr \in WriteOutcomes : CanAdd(MaxId) /\ KeyEnter(rd, wr)
    \/ TimePasses

\* The whole program with a moving clock.
Spec == Init /\ [][Next]_vars

NextList ==
    \/ Step
    \/ \E rd \in ReadOutcomes, wr \in WriteOutcomes : CanAdd(MaxListId) /\ KeyEnter(rd, wr)

\* The whole program within one instant of the clock, with longer lists.
SpecList == Init /\ [][NextList]_vars

(* ------------------- the store calls, one at a time ------------------- *)

\* The tasks handed to the store calls: ids 1..MaxStoreId, each as created
\* at time 0 and as advanced to Done at time 1 (with an empty name).
SampleTask(i, st) ==
    IF st = "Pending" THEN create_task(i, <<"d">>, 0)
    ELSE Task_progress(Task_progress(Task_progress(create_task(i, <<>>, 0), 1), 1), 1)
SampleTasks == {SampleTask(i, st) : i \in 1..MaxStoreId, st \in {"Pending", "Done"}}

\* The task lists handed to write_db: any order, ids repeated or not.
SampleLists == UNION {[1..k -> SampleTasks] : k \in 0..MaxStoreLen}

\* Texts no run of the program wrote: no JSON at all, an array that goes
\* on after its bracket, a line feed after null, a state in the form the
\* table shows, and an array with a comma and no element.
ForeignTexts ==
    { <<Tok("junk")>>,
      to_writer(<<SampleTask(1, "Pending")>>) \o <<Tok("junk")>>,
      <<Tok("null"), Tok("junk")>>,
      <<Tok("["),
        Obj([serialize_task(SampleTask(1, "Done")) EXCEPT !.state = "\"done\""]),
        Tok("]")>>,
      <<Tok("["), Obj(serialize_task(SampleTask(1, "Pending"))), Tok(","), Tok("]")>> }

\* The tokens handed to TaskState::try_from.
StateTokens == {"pending", "started", "in progress", "done",
                "Pending", "InProgress", "finished", ""}

\* The text write_db leaves when the write fails after k tokens of the
\* document, or (inside) in the middle of the object that follows them.
write_db_interrupted(tasks, k, inside) ==
    LET full == to_writer(sort_by_id(tasks))
    IN  SubSeq(full, 1, k) \o
        (IF inside /\ full[k + 1][1] = "{}" THEN <<Tok("{")>> ELSE <<>>)

InitStore ==
    /\ InitProgram
    /\ db = Absent
    /\ overflow_checks
    /\ disk \in {OnDisk(Absent), OnDisk(EmptyFile), OnDisk(NullFile)}
                  \cup {[exists |-> TRUE, text |-> t] : t \in ForeignTexts}
    /\ arg = <<>>
    /\ ret = NoCall
    /\ InitNoEvents

\* read_db(): get_db_file creates a missing file, collect_tasks decodes.
StoreLoad ==
    /\ disk' = [exists |-> TRUE, text |-> disk.text]
    /\ arg' = <<>>
    /\ ret' = [op |-> "load", ok |-> collect_tasks_str(disk.text).ok,
               value |-> collect_tasks_str(disk.text).tasks]
    /\ UNCHANGED <<prog, events>>

\* write_db(tasks) succeeding.
StoreSave(tasks) ==
    /\ disk' = OnDisk(write_db(EmptyFile, tasks, "ok").file)
    /\ arg' = tasks
    /\ ret' = [op |-> "save", ok |-> TRUE, value |-> write_db(EmptyFile, tasks, "ok").tasks]
    /\ UNCHANGED <<prog, events>>

\* write_db(tasks) failing in to_writer.
StoreSaveInterrupted(tasks, k, inside) ==
    /\ k \in 0..(Len(to_writer(tasks)) - 1)
    /\ disk' = [exists |-> TRUE, text |-> write_db_interrupted(tasks, k, inside)]
    /\ arg' = tasks
    /\ ret' = [op |-> "save", ok |-> FALSE, value |-> <<>>]
    /\ UNCHANGED <<prog, events>>

\* write_db(read_db()?): what a handler does, with nothing done in between.
StoreResave ==
    /\ collect_tasks_str(disk.text).ok
    /\ disk' = OnDisk(write_db(EmptyFile, collect_tasks_str(disk.text).tasks, "ok").file)
    /\ arg' = collect_tasks_str(disk.text).tasks
    /\ ret' = [op |-> "resave", ok |-> TRUE,
               value |-> write_db(EmptyFile, collect_tasks_str(disk.text).tasks, "ok").tasks]
    /\ UNCHANGED <<prog, events>>

\* TaskState::try_from(value)
StoreTryFrom(value) ==
    /\ arg' = <<value>>
    /\ ret' = [op |-> "try_from", ok |-> TaskState_try_from(value).ok,
               value |-> <<TaskState_try_from(value).state>>]
    /\ UNCHANGED <<prog, disk, events>>

NextStore ==
    \/ StoreLoad
    \/ \E tasks \in SampleLists : StoreSave(tasks)
    \/ \E tasks \in SampleLists, k \in 0..MaxStoreTokens, inside \in BOOLEAN :
          StoreSaveInterrupted(tasks, k, inside)
    \/ StoreResave
    \/ \E value \in StateTokens : StoreTryFrom(value)

\* The store calls applied one after another to a file's text.
SpecStore == InitStore /\ [][NextStore]_vars

(* --------------------- event thread and channel ----------------------- *)

\* The keys the user presses in this specification: Advance and Delete.
EventKeys == {"p", "d"}

\* tx.send(m) on the unbounded channel: m goes behind what was sent.
mpsc_send(q, m) == Append(q, m)

\* rx.recv() handing out the event sent last.
mpsc_recv_last(q) == [msg |-> q[Len(q)], rest |-> SubSeq(q, 1, Len(q) - 1)]

\* rx.recv() on a channel that holds events: the one sent first.
mpsc_recv(q) == [msg |-> Head(q), rest |-> Tail(q)]

\* The event thread sending a Tick in every turn of its loop.
tick_due_always(elapsed) == TRUE

\* last_tick.elapsed() >= tick_rate
tick_due(elapsed) == elapsed >= tick_rate

\* Time, counted up to tick_rate.
Later(t) == IF t < tick_rate THEN t + 1 ELSE t

\* The session inside its loop on the home screen, on a store of two
\* tasks, the event thread just spawned.
InitEvents ==
    /\ db = Doc(<<create_task(1, <<"d">>, 0), create_task(2, <<"d">>, 0)>>)
    /\ selected = Some(0)
    /\ input = <<>>
    /\ input_mode = "Normal"
    /\ active_menu_item = "Home"
    /\ pc = "draw"
    /\ raw_mode = TRUE
    /\ enables = 1
    /\ disables = 0
    /\ now = 0
    /\ producer = "alive"
    /\ arm = "none"
    /\ overflow_checks \in BOOLEAN
    /\ InitNoStore
    /\ InitNoEvents

\* One unit of time passes.  (The user and the clock are held back while
\* MaxChan events wait in the channel.)
Tock ==
    /\ Len(channel) < MaxChan
    /\ last_tick' = Later(last_tick)
    /\ since_tick' = Later(since_tick)
    /\ UNCHANGED <<prog, store, thread_pc, channel, held_key, read_keys, applied_keys>>

\* event::poll(timeout) answers true and event::read() gives the key k.
ThreadPollKey(k) ==
    /\ thread_pc = "poll"
    /\ Len(channel) < MaxChan
    /\ Len(read_keys) < MaxKeys
    /\ held_key' = k
    /\ read_keys' = Append(read_keys, k)
    /\ thread_pc' = "send"
    /\ UNCHANGED <<prog, store, last_tick, since_tick, channel, applied_keys>>

\* event::poll(timeout) answers true and event::read() gives an event that
\* is no key (mouse, resize).
ThreadPollOther ==
    /\ thread_pc = "poll"
    /\ thread_pc' = "check"
    /\ UNCHANGED <<prog, store, last_tick, since_tick, channel, held_key, read_keys,
                   applied_keys>>

\* event::poll(timeout) answers false: the timeout, tick_rate less
\* last_tick.elapsed(), has run out.
ThreadPollTimeout ==
    /\ thread_pc = "poll"
    /\ last_tick >= tick_rate
    /\ thread_pc' = "check"
    /\ UNCHANGED <<prog, store, last_tick, since_tick, channel, held_key, read_keys,
                   applied_keys>>

\* main() has returned or unwound: rx is dropped, the process not yet gone.
ReceiverGone == pc \in {"exit_ok", "exit_err", "panicked"}

\* tx.send(Event::Input(key)), the receiver there
ThreadSendInput ==
    /\ thread_pc = "send"
    /\ ~ReceiverGone
    /\ channel' = mpsc_send(channel, held_key)
    /\ held_key' = "none"
    /\ thread_pc' = "check"
    /\ UNCHANGED <<prog, store, last_tick, since_tick, read_keys, applied_keys>>

\* if last_tick.elapsed() >= tick_rate { tx.send(Event::Tick) .. }
ThreadCheckTick ==
    /\ thread_pc = "check"
    /\ tick_due(last_tick) => ~ReceiverGone
    /\ IF tick_due(last_tick)
       THEN /\ channel' = mpsc_send(channel, "Tick")
            /\ since_tick' = 0
            /\ thread_pc' = "stamp"
       ELSE /\ thread_pc' = "poll"
            /\ UNCHANGED <<channel, since_tick>>
    /\ UNCHANGED <<prog, store, last_tick, held_key, read_keys, applied_keys>>

\* last_tick = Instant::now(), after the Tick was sent.
ThreadStamp ==
    /\ thread_pc = "stamp"
    /\ last_tick' = 0
    /\ thread_pc' = "poll"
    /\ UNCHANGED <<prog, store, since_tick, channel, held_key, read_keys, applied_keys>>

\* rx.recv() returns the next event.
ControllerRecv ==
    /\ pc = "recv"
    /\ channel # <<>>
    /\ arm' = mpsc_recv(channel).msg
    /\ channel' = mpsc_recv(channel).rest
    /\ pc' = "dispatch"
    /\ UNCHANGED <<db, selected, input, input_mode, active_menu_item, raw_mode, enables,
                   disables, now, producer, overflow_checks, store, thread_pc, last_tick,
                   since_tick, held_key, read_keys, applied_keys>>

\* The record of the keys once the arm of key k has run; it starts afresh
\* when every key read has been applied.
KeyApplied(k) ==
    IF Append(applied_keys, k) = read_keys
    THEN read_keys' = <<>> /\ applied_keys' = <<>>
    ELSE read_keys' = read_keys /\ applied_keys' = Append(applied_keys, k)

\* The arm of the event received runs, on a store that can be read and
\* written: Tick => {}, 'p' => progress_task_at_index, 'd' =>
\* remove_task_at_index.
ControllerDispatch ==
    /\ pc = "dispatch"
    /\ arm \in EventKeys \cup {"Tick"}
    /\ pc' = "draw"
    /\ CASE arm = "Tick" -> UNCHANGED <<db, selected, read_keys, applied_keys>>
         [] arm = "p" ->
              /\ db' = progress_task_at_index(db, selected, now, "ok", "ok").file
              /\ selected' = progress_task_at_index(db, selected, now, "ok", "ok").selected
              /\ KeyApplied("p")
         [] arm = "d" ->
              /\ db' = remove_task_at_index(db, selected, "ok", "ok").file
              /\ selected' = remove_task_at_index(db, selected, "ok", "ok").selected
              /\ KeyApplied("d")
    /\ UNCHANGED <<input, input_mode, active_menu_item, raw_mode, enables, disables, now,
                   producer, arm, overflow_checks, store, thread_pc, last_tick, since_tick,
                   channel, held_key>>

NextEvents ==
    \/ Tock
    \/ \E k \in EventKeys : ThreadPollKey(k)
    \/ ThreadPollOther
    \/ ThreadPollTimeout
    \/ ThreadSendInput
    \/ ThreadCheckTick
    \/ ThreadStamp
    \/ ControllerRecv
    \/ ControllerDispatch
    \/ Draw("ok", TRUE)

\* The event thread and the controller side by side, no failures.
SpecEvents == InitEvents /\ [][NextEvents]_vars

\* The steps the event thread takes by itself.
ThreadRuns == ThreadPollTimeout \/ ThreadSendInput \/ ThreadCheckTick \/ ThreadStamp

\* The steps of the controller's loop.
ControllerRuns == ControllerRecv \/ ControllerDispatch \/ Draw("ok", TRUE)

\* SpecEvents with both threads scheduled fairly and time going on: a step
\* a thread can take is taken, and time is not held back for ever.
SpecEventsFair ==
    /\ SpecEvents
    /\ WF_vars(ThreadRuns)
    /\ WF_vars(ControllerRuns)
    /\ SF_vars(Tock)

(* ----------------- event thread and channel, failing ------------------ *)

\* The event thread has ended: by a panic of its own, or with the process.
ThreadStopped == thread_pc \in {"panicked", "killed"}

\* What the event thread leaves when it panics: tx is dropped.
ThreadPanics ==
    /\ thread_pc' = "panicked"
    /\ producer' = "dead"
    /\ held_key' = "none"
    /\ UNCHANGED <<db, selected, input, input_mode, active_menu_item, pc, raw_mode,
                   enables, disables, now, arm, overflow_checks, store, last_tick,
                   since_tick, channel, read_keys, applied_keys>>

\* event::poll(timeout).expect("poll works") or
\* event::read().expect("can read events") on an error of the input device.
ThreadPollFails ==
    /\ thread_pc = "poll"
    /\ ThreadPanics

\* tx.send(Event::Input(key)).expect("can send events"), the receiver gone.
ThreadSendInputFails ==
    /\ thread_pc = "send"
    /\ ReceiverGone
    /\ ThreadPanics

\* if let Ok(_) = tx.send(Event::Tick) { .. }, the receiver gone: the error
\* is dropped, last_tick keeps its value and the loop goes round.
ThreadSendTickFails ==
    /\ thread_pc = "check"
    /\ tick_due(last_tick)
    /\ ReceiverGone
    /\ thread_pc' = "poll"
    /\ UNCHANGED <<prog, store, last_tick, since_tick, channel, held_key, read_keys,
                   applied_keys>>

\* KeyCode::Char('e') with the terminal calls succeeding: main returns Ok.
ControllerQuit ==
    /\ pc = "dispatch"
    /\ arm = "e"
    /\ raw_mode' = FALSE
    /\ disables' = disables + 1
    /\ pc' = "exit_ok"
    /\ UNCHANGED <<db, selected, input, input_mode, active_menu_item, enables, now,
                   producer, arm, overflow_checks, aux>>

\* rx.recv()? when the sender is gone and nothing is left in the channel.
ControllerRecvClosed ==
    /\ channel = <<>>
    /\ RecvClosed

\* The process ends after main(): the event thread goes with it.
ProcessExit ==
    /\ ReceiverGone
    /\ ~ThreadStopped
    /\ thread_pc' = "killed"
    /\ producer' = "dead"
    /\ held_key' = "none"
    /\ UNCHANGED <<db, selected, input, input_mode, active_menu_item, pc, raw_mode,
                   enables, disables, now, arm, overflow_checks, store, last_tick,
                   since_tick, channel, read_keys, applied_keys>>

NextEventsFail ==
    \/ NextEvents
    \/ ThreadPollKey("e")
    \/ ThreadPollFails
    \/ ThreadSendInputFails
    \/ ThreadSendTickFails
    \/ ControllerQuit
    \/ ControllerRecvClosed
    \/ ProcessExit

\* The event thread and the controller side by side, with the Quit key,
\* a failing input device, and the end of main() before the process ends.
SpecEventsFail == InitEvents /\ [][NextEventsFail]_vars

(* ------------------------------ claims -------------------------------- *)

\* The file of the program specifications stands for its text: decoding
\* the text gives the list collect_tasks gives.
FileStandsForText ==
    collect_tasks_str(OnDisk(ensure_db_file_exists(db)).text)
        = [ok |-> TRUE, tasks |-> collect_tasks(ensure_db_file_exists(db))]

\* The list load() returns for the file as it is.
task_list == collect_tasks(ensure_db_file_exists(db))

\* main() is inside its loop.
InLoop == pc \in {"draw", "recv"}

\* main() has ended.
Exited == pc \in {"exit_ok", "exit_err", "panicked"}

\* This step took arm ev of the dispatch and the loop went on.
Did(ev) == pc = "recv" /\ arm' = ev /\ pc' = "draw"

\* The state just after arm ev, before the next draw.
JustDid(ev) == pc = "draw" /\ arm = ev

Ids(tasks) == {tasks[k].id : k \in 1..Len(tasks)}
IdSeq(tasks) == [k \in 1..Len(tasks) |-> tasks[k].id]
UniqueIds(tasks) ==
    \A i, j \in 1..Len(tasks) : i # j => tasks[i].id # tasks[j].id
MaxIdOf(tasks) ==
    IF tasks = <<>> THEN 0
    ELSE CHOOSE m \in Ids(tasks) : \A x \in Ids(tasks) : x <= m
Rank(st) ==
    CASE st = "Pending" -> 0 [] st = "Started" -> 1
      [] st = "InProgress" -> 2 [] st = "Done" -> 3

\* C1: inside the loop, a non-empty list has a selection index i with
\* 0 <= i < len, and an empty list has no selection.
C1_SelectionInvariant ==
    InLoop =>
        IF task_list # <<>>
        THEN selected # None /\ Unwrap(selected) \in 0..(Len(task_list) - 1)
        ELSE selected = None

\* C2: Advance on a task that is already Done leaves the task, state and
\* timestamps, exactly as it was.
C2_AdvanceIdempotentAtDone ==
    [][ \A i \in 1..Len(task_list) :
          (Did("p") /\ selected = Some(i - 1) /\ task_list[i].state = "Done")
             => /\ Len(task_list') = Len(task_list)
                /\ task_list'[i] = task_list[i] ]_vars

\* The step leaves the loop on one of the paths C3 names: the Quit key with
\* the terminal calls succeeding, a store error in Advance, Delete, Add,
\* Navigate or the task screen's render, or the closed channel.
LeavesLoop ==
    /\ InLoop
    /\ Exited'
    /\ \/ pc' = "exit_ok"
       \/ arm' \in {"p", "d", "Enter", "Down", "Up", "closed"}
       \/ pc = "draw" /\ pc' = "panicked"

\* C3: raw mode is enabled once at startup, and whenever main() leaves its
\* loop raw mode is off and has been disabled exactly once.
C3_RawModeRestored ==
    [][ LeavesLoop => (enables' = 1 /\ disables' = 1 /\ raw_mode' = FALSE) ]_vars

\* C4: the ids in the store are pairwise distinct at all times, and Add
\* appends one task whose id is the prior maximum plus one (1 on an empty
\* store).
C4_AddAssignsNextId ==
    [][ /\ UniqueIds(task_list')
        /\ Did("Enter") =>
             /\ Len(task_list') = Len(task_list) + 1
             /\ Ids(task_list') = Ids(task_list) \cup {MaxIdOf(task_list) + 1}
             /\ MaxIdOf(task_list') = MaxIdOf(task_list) + 1 ]_vars

\* C4 witness: an Add after the first task was deleted gave id 3 to the
\* second task of the list.
C4_Witness == JustDid("Enter") /\ IdSeq(task_list) = <<2, 3>>

\* C5: a task enters the store as Pending; in every step, a task that
\* stays in the store keeps its state, except the selected task of an
\* Advance, which moves exactly one state forward, or stays at Done.
C5_AdvanceMonotonic ==
    [][ /\ \A j \in 1..Len(task_list') :
             task_list'[j].id \notin Ids(task_list) => task_list'[j].state = "Pending"
        /\ \A i \in 1..Len(task_list), j \in 1..Len(task_list') :
             task_list[i].id = task_list'[j].id =>
                IF Did("p") /\ selected = Some(i - 1)
                THEN Rank(task_list'[j].state) =
                        (IF Rank(task_list[i].state) = 3 THEN 3
                         ELSE Rank(task_list[i].state) + 1)
                ELSE task_list'[j].state = task_list[i].state ]_vars

\* C5 witness: an Advance has just been applied and the selected task is Done.
C5_Witness ==
    /\ JustDid("p")
    /\ selected # None
    /\ Unwrap(selected) < Len(task_list)
    /\ task_list[Unwrap(selected) + 1].state = "Done"

\* The timestamps a task in a given state carries, and their order.
TimestampsFit(task) ==
    /\ (task.started_at # None) <=> (Rank(task.state) >= 1)
    /\ (task.finished_at # None) <=> (Rank(task.state) = 3)
    /\ task.started_at # None => task.created_at <= Unwrap(task.started_at)
    /\ (task.started_at # None /\ task.finished_at # None)
          => Unwrap(task.started_at) <= Unwrap(task.finished_at)

\* C6: every stored task has started_at exactly from Started on and
\* finished_at exactly at Done, with created_at <= started_at <=
\* finished_at; no step clears a timestamp of a task that stays; and an
\* Advance on a Pending task gives Started, started_at set to the current
\* time, finished_at unset.
C6_TimestampsTrackLifecycle ==
    [][ /\ \A j \in 1..Len(task_list') : TimestampsFit(task_list'[j])
        /\ \A i \in 1..Len(task_list), j \in 1..Len(task_list') :
             task_list[i].id = task_list'[j].id =>
                /\ task_list[i].started_at # None => task_list'[j].started_at # None
                /\ task_list[i].finished_at # None => task_list'[j].finished_at # None
                /\ task_list'[j].created_at = task_list[i].created_at
                /\ (Did("p") /\ selected = Some(i - 1) /\ task_list[i].state = "Pending")
                     => /\ task_list'[j].state = "Started"
                        /\ task_list'[j].started_at = Some(now)
                        /\ task_list'[j].finished_at = None ]_vars

\* C6 witness: a task created at time 0 was advanced to Done at time 1.
C6_Witness ==
    \E i \in 1..Len(task_list) :
        /\ task_list[i].state = "Done"
        /\ task_list[i].created_at = 0
        /\ task_list[i].finished_at = Some(1)

\* C7: a Delete with selection i on a list of length n > i leaves the list
\* without its i-th element, the others unchanged and in order.
C7_DeleteRemovesSelected ==
    [][ (Did("d") /\ selected # None /\ task_list # <<>>)
          => /\ Unwrap(selected) < Len(task_list)
             /\ task_list' = [k \in 1..(Len(task_list) - 1) |->
                                IF k <= Unwrap(selected) THEN task_list[k]
                                ELSE task_list[k + 1]] ]_vars

\* C7 witness: the middle task of three has just been deleted.
C7_Witness == JustDid("d") /\ IdSeq(task_list) = <<1, 3>> /\ selected = Some(0)

\* C8: after a Delete at index i the selection is i-1 if i > 0, stays 0 if
\* i = 0 and tasks remain, and is absent if the list is now empty.
C8_DeleteRevalidatesSelection ==
    [][ (Did("d") /\ selected # None /\ task_list # <<>>)
          => selected' = (IF Unwrap(selected) # 0 THEN Some(Unwrap(selected) - 1)
                          ELSE IF task_list' # <<>> THEN Some(0)
                          ELSE None) ]_vars

\* C9: on a non-empty list of length n with selection i < n, Down gives
\* i+1, or 0 from n-1; Up gives i-1, or n-1 from 0; the list is unchanged.
C9_NavigateWraps ==
    [][ \A i \in 0..(Len(task_list) - 1) :
          selected = Some(i) =>
             /\ Did("Down") =>
                   /\ selected' = Some(IF i = Len(task_list) - 1 THEN 0 ELSE i + 1)
                   /\ task_list' = task_list
             /\ Did("Up") =>
                   /\ selected' = Some(IF i = 0 THEN Len(task_list) - 1 ELSE i - 1)
                   /\ task_list' = task_list ]_vars

\* C9 witness: with overflow checks on (the selection never leaves the
\* list), Up has just moved the selection to the last of three tasks.
C9_Witness ==
    /\ JustDid("Up")
    /\ overflow_checks
    /\ Len(task_list) = 3
    /\ selected = Some(2)

\* C10: a Navigate key pressed in the normal screen while the store is
\* empty and readable changes neither selection, store nor screen, and the
\* loop goes on.
C10_NavigateNoOpOnEmpty ==
    [][ (task_list = <<>> /\ (KeyDown("ok") \/ KeyUp("ok")))
          => /\ selected' = selected
             /\ task_list' = task_list
             /\ active_menu_item' = active_menu_item
             /\ input_mode' = input_mode
             /\ pc' = "draw" ]_vars

\* C11: a committed Add leaves the stored list as it was with one task
\* appended, which carries the typed name, is Pending and has neither
\* started_at nor finished_at; the selection keeps its value; on an empty
\* store the list becomes the single task with id 1.
C11_AddAppendsOne ==
    [][ Did("Enter") =>
          LET n == Len(task_list)
          IN  /\ Len(task_list') = n + 1
              /\ SubSeq(task_list', 1, n) = task_list
              /\ task_list'[n + 1].name = input
              /\ task_list'[n + 1].state = "Pending"
              /\ task_list'[n + 1].started_at = None
              /\ task_list'[n + 1].finished_at = None
              /\ selected' = selected
              /\ n = 0 => task_list'[1].id = 1 ]_vars

\* C11 witness: an Add has just put a task named "d" behind an advanced
\* task, with the selection on the first task.
C11_Witness ==
    /\ JustDid("Enter")
    /\ Len(task_list) = 2
    /\ task_list[1].state = "Started"
    /\ task_list[2].name = <<"d">>
    /\ task_list[2].state = "Pending"
    /\ selected = Some(0)

\* C12: an Advance with the selection on a task changes that task only
\* (its id, name and created_at stay) and the list stays as long and in
\* the same order; with no selection or an empty readable store, Advance
\* changes neither list nor selection and the loop goes on.
C12_AdvanceTouchesSelectedOnly ==
    [][ /\ \A i \in 1..Len(task_list) :
             (Did("p") /\ selected = Some(i - 1)) =>
                /\ Len(task_list') = Len(task_list)
                /\ \A k \in 1..Len(task_list) : k # i => task_list'[k] = task_list[k]
                /\ task_list'[i].id = task_list[i].id
                /\ task_list'[i].name = task_list[i].name
                /\ task_list'[i].created_at = task_list[i].created_at
                /\ task_list[i].state # "Done" => task_list'[i].state # task_list[i].state
        /\ ((selected = None \/ task_list = <<>>)
              /\ \E wr \in WriteOutcomes : KeyProgress("ok", wr))
             => /\ task_list' = task_list
                /\ selected' = selected
                /\ pc' = "draw" ]_vars

\* C12 witness: an Advance has just moved the second of two tasks to
\* Started while the first is still Pending.
C12_Witness ==
    /\ JustDid("p")
    /\ Len(task_list) = 2
    /\ selected = Some(1)
    /\ task_list[1].state = "Pending"
    /\ task_list[2].state = "Started"

\* This step is the store call op.
Called(op) == ret'.op = op

\* s is in ascending order of id.
SortedById(s) == \A i, j \in 1..Len(s) : i < j => s[i].id <= s[j].id

\* a and b hold the same tasks, each as many times.
Count(s, t) == Cardinality({k \in 1..Len(s) : s[k] = t})
SameTasks(a, b) ==
    /\ Len(a) = Len(b)
    /\ \A k \in 1..Len(a) : Count(a, a[k]) = Count(b, a[k])

\* C13: after a save that succeeded, what it returned is the given tasks,
\* none added, dropped or altered, in ascending order of id, and the file
\* decodes to exactly that list.
C13_SaveSortsAndKeeps ==
    (ret.op \in {"save", "resave"} /\ ret.ok)
       => /\ SortedById(ret.value)
          /\ SameTasks(arg, ret.value)
          /\ disk.exists
          /\ collect_tasks_str(disk.text) = [ok |-> TRUE, tasks |-> ret.value]

\* C13 witness: a save was handed task 2 before task 1 and returned them
\* as 1, 2.
C13_Witness ==
    /\ ret.op = "save"
    /\ ret.ok
    /\ IdSeq(arg) = <<2, 1>>
    /\ IdSeq(ret.value) = <<1, 2>>

\* C14: on a file that holds a document whose list is in ascending order
\* of id, save(load()) leaves the text as it was, returns the list load
\* gave, and a load afterwards gives that list again, every member of
\* every task the same.
C14_SaveLoadFixedPoint ==
    [][ (Called("resave") /\ from_str(disk.text).ok /\ SortedById(from_str(disk.text).tasks))
          => /\ disk' = disk
             /\ ret'.value = from_str(disk.text).tasks
             /\ collect_tasks_str(disk'.text) = collect_tasks_str(disk.text) ]_vars

\* C14 witness: save(load()) has run on a document of two tasks, one
\* Pending with a name and one Done with both stamps set.
C14_Witness ==
    /\ ret.op = "resave"
    /\ Len(ret.value) = 2
    /\ ret.value[1].state = "Pending"
    /\ ret.value[1].name = <<"d">>
    /\ ret.value[2].state = "Done"
    /\ ret.value[2].finished_at = Some(1)
    /\ disk.text = to_writer(ret.value)

\* C15: a load of a file that is missing, of length zero, or holds the
\* text null returns the empty list and no error (the missing file is
\* created).
C15_EmptyStoreLoadsEmpty ==
    [][ (Called("load") /\ (~disk.exists \/ disk.text = <<>> \/ disk.text = <<Tok("null")>>))
          => /\ ret'.ok
             /\ ret'.value = <<>>
             /\ disk'.exists ]_vars

\* C15 witness: a load of the text null has returned the empty list.
C15_Witness ==
    /\ ret.op = "load"
    /\ ret.ok
    /\ ret.value = <<>>
    /\ disk.text = <<Tok("null")>>

\* C16: a load of a text that is neither empty, nor null, nor a complete
\* well-formed document returns an error, never a list.
C16_MalformedLoadFails ==
    [][ (Called("load") /\ disk.text # <<>> /\ disk.text # <<Tok("null")>>
                        /\ ~from_str(disk.text).ok)
          => ~ret'.ok ]_vars

\* C17: try_from gives Pending, Started, InProgress, Done for "pending",
\* "started", "in progress", "done", the state whose to_string is the
\* token, and an error for every other token.
C17_StateDecodingExact ==
    ret.op = "try_from" =>
        LET value == arg[1]
        IN  IF value \in {"pending", "started", "in progress", "done"}
            THEN /\ ret.ok
                 /\ ret.value[1] = (CASE value = "pending"     -> "Pending"
                                      [] value = "started"     -> "Started"
                                      [] value = "in progress" -> "InProgress"
                                      [] value = "done"        -> "Done")
                 /\ TaskState_to_string(ret.value[1]) = value
            ELSE ~ret.ok

\* C17 witness: try_from was handed the variant's name "Pending" and
\* returned an error.
C17_Witness ==
    /\ ret.op = "try_from"
    /\ arg = <<"Pending">>
    /\ ~ret.ok

\* C18: every task in the store has a non-empty name.
C18_NamesNonEmpty ==
    \A k \in 1..Len(task_list) : task_list[k].name # <<>>

\* The keys among the events q, in order.
KeysOf(q) == SelectSeq(q, LAMBDA m : m # "Tick")

\* Every key read from the terminal is in exactly one place, and the
\* places in order give the keys in the order they were read: applied,
\* being dispatched, waiting in the channel, held by the event thread.
KeysInOrder ==
    applied_keys
      \o (IF pc = "dispatch" /\ arm # "Tick" THEN <<arm>> ELSE <<>>)
      \o KeysOf(channel)
      \o (IF thread_pc = "send" THEN <<held_key>> ELSE <<>>)
    = read_keys

\* C19: the keys are applied once each in the order they were read; the
\* controller takes an event only when it waits in recv, and takes the one
\* sent first; the store changes only in a dispatch step, which ends
\* before the next event is taken.
C19_IntentsInArrivalOrder ==
    /\ KeysInOrder
    /\ [][ /\ KeysInOrder'
           /\ Len(channel') < Len(channel) =>
                 /\ pc = "recv"
                 /\ pc' = "dispatch"
                 /\ arm' = Head(channel)
                 /\ channel' = Tail(channel)
           /\ db' # db => (pc = "dispatch" /\ pc' = "draw") ]_vars

\* C19 witness: Advance was read before Delete; its arm has run (the first
\* task is Started) and the arm of Delete is running while a Tick waits.
C19_Witness ==
    /\ applied_keys = <<"p">>
    /\ read_keys = <<"p", "d">>
    /\ pc = "dispatch"
    /\ arm = "d"
    /\ channel = <<"Tick">>
    /\ task_list[1].state = "Started"

\* C20: a Tick is sent only when a full tick_rate has passed since the
\* Tick before (or since the thread started); when tick_rate has passed
\* since the last Tick, a Tick is sent, keys or no keys; and the
\* controller is woken by a Tick again and again.
C20_TickEveryInterval ==
    /\ [][ (thread_pc = "check" /\ thread_pc' = "stamp") => since_tick >= tick_rate ]_vars
    /\ (since_tick >= tick_rate) ~> (since_tick = 0)
    /\ []<>(pc = "dispatch" /\ arm = "Tick")

\* C20 witness: a Tick has just been sent behind a key that waits in the
\* channel.
C20_Witness ==
    /\ thread_pc = "stamp"
    /\ since_tick = 0
    /\ channel = <<"p", "Tick">>

\* A stopped event thread stays stopped and sends nothing.
StoppedForGood ==
    [][ ThreadStopped => (thread_pc' = thread_pc /\ Len(channel') <= Len(channel)) ]_vars

\* The event thread stops at a send of an Input that fails.
InputSendFailureFatal ==
    [][ (ReceiverGone /\ thread_pc = "send" /\ thread_pc' # thread_pc)
          => ThreadStopped' ]_vars

\* A receive on the closed and empty channel ends main() with an error.
ClosedChannelEndsLoop ==
    [][ (pc = "recv" /\ producer = "dead" /\ channel = <<>> /\ pc' # pc)
          => pc' = "exit_err" ]_vars

\* SpecEventsFail with both threads scheduled fairly.
SpecEventsFailFair ==
    /\ SpecEventsFail
    /\ WF_vars(ThreadRuns)
    /\ WF_vars(ControllerRuns \/ ControllerQuit \/ ControllerRecvClosed)

\* Once the event thread is gone, the controller does not block for ever.
DeadThreadEndsSession == (producer = "dead" /\ InLoop) ~> Exited

\* C21: the event thread stops at every failure to read the input device
\* and at every failed send, of an Input or of a Tick; stopped, it takes no
\* further step; and the controller's receive on the closed, empty channel
\* ends main() with an error.
C21_EventSourceFailureFatal ==
    [][ /\ ThreadStopped => (thread_pc' = thread_pc /\ Len(channel') <= Len(channel))
        /\ (ReceiverGone /\ thread_pc = "send" /\ thread_pc' # thread_pc)
              => ThreadStopped'
        /\ (ReceiverGone /\ thread_pc = "check" /\ tick_due(last_tick)
                         /\ thread_pc' # thread_pc)
              => ThreadStopped'
        /\ (pc = "recv" /\ producer = "dead" /\ channel = <<>> /\ pc' # pc)
              => pc' = "exit_err" ]_vars

\* C22: the stored list changes only in the arm of Enter in add-task
\* entry and in the arms of 'p' and 'd' in the normal screen; every other
\* step leaves it as it was, and Esc in add-task entry gives the normal
\* screen with the list as it was.
C22_StoreChangesOnlyOnMutations ==
    [][ /\ task_list' # task_list =>
              /\ pc = "recv"
              /\ \/ arm' = "Enter" /\ input_mode = "Editing"
                 \/ arm' \in {"p", "d"} /\ input_mode = "Normal"
        /\ Did("Esc") => (input_mode' = "Normal" /\ task_list' = task_list) ]_vars

\* C22 witness: 'd' has just been typed into the input box of add-task
\* entry and the one stored task is still there.
C22_Witness ==
    /\ JustDid("Char")
    /\ input_mode = "Editing"
    /\ input = <<"d">>
    /\ Len(task_list) = 1

\* A step of the loop other than the Quit key, with every store call and
\* the terminal succeeding and the event thread alive.
HealthyStep ==
    \/ Draw("ok", TRUE)
    \/ RecvTick
    \/ \E k \in {"h", "t"} : KeySwitch(k)
    \/ KeyAdd
    \/ KeyProgress("ok", "ok")
    \/ KeyDelete("ok", "ok")
    \/ KeyDown("ok")
    \/ KeyUp("ok")
    \/ KeyEnter("ok", "ok")
    \/ \E c \in EditChars : KeyChar(c)
    \/ KeyBackspace
    \/ KeyEsc
    \/ \E k \in {"Esc", "Down"} : KeyIgnored(k)

\* C23: with the store readable and writable, no redraw, Tick or key other
\* than Quit ends main(): the loop goes on after each of them.
C23_OnlyQuitEndsLoop ==
    [][ HealthyStep => InLoop' ]_vars

====
